---------------------------- MODULE Spec2Model ----------------------------
(***************************************************************************)
(* A model of src/bot.py: the entitlement gate (subscriptions, daily      *)
(* free-tier counters, gift codes), the channel cache with its milestone   *)
(* notification, the USD/RUB rate cache, the functions of the analysis    *)
(* (extract_username, detect_niche, get_channel_info, get_post_views,      *)
(* calculate_fair_price, get_er_status), analyze_channel, the handler     *)
(* that calls them in turn, and the admin entry points (grant_command,     *)
(* giftcode_command, button_callback).                                     *)
(*                                                                         *)
(* Text is a sequence of characters, a Cyrillic letter written as its      *)
(* transliteration in angle brackets; a float is an exact fraction in      *)
(* lowest terms.  The answers of the Bot API, of the preview page and of   *)
(* the rate sources are inputs of the actions.                             *)
(*                                                                         *)
(* The four PostgreSQL tables are partial functions from primary key to    *)
(* row.  Time is a clock of ticks, TicksPerDay ticks to a calendar day;    *)
(* datetime.now(), datetime.utcnow() and the store's NOW() read the same   *)
(* clock (the process and the store are taken to share a time zone).       *)
(* A store failure is modelled where the code catches it (is_premium,      *)
(* save_channel_cache, get_usd_rate) and in redeem_gift_code.              *)
(***************************************************************************)
EXTENDS Integers, Sequences, FiniteSets, TLC

VARIABLES
    now,            \* the clock, in ticks
    subscriptions,  \* table subscriptions: user_id -> expires_at
    daily_checks,   \* table daily_checks: <<user_id, date>> -> count
    gift_codes,     \* table gift_codes: code -> [days, used, used_by, used_at]
    calls,          \* history: per user, the check_daily_limit calls of one day
    last,           \* history: the last call made and what it returned
    procs,          \* per concurrent caller: the call it is in and its locals
    freeGrants,     \* history: <<user_id, date>> -> grants on the free-tier path
    redeemed,       \* history: code -> successes reported, subscriptions granted
    channel_cache,  \* table channel_cache: a set of rows
    notifications,  \* milestone messages delivered to the admin so far
    saved,          \* history: username -> the last snapshot committed for it
    save_last,      \* history: the last save_channel_cache call
    usd_rate,       \* the process-wide rate cache _usd_rate: [rate, date]
    rate_last,      \* history: the last get_usd_rate call
    fn,             \* one call of a function of the analysis: input and output
    an_last         \* history: the last message analyze_channel handled, the
                    \* calls it made in order and what it replied

dbVars == <<subscriptions, daily_checks, gift_codes>>
concVars == <<procs, freeGrants, redeemed>>
cacheVars == <<channel_cache, notifications, saved, save_last>>
rateVars == <<usd_rate, rate_last>>
fnVars == <<fn>>
anVars == <<an_last>>
vars == <<now, subscriptions, daily_checks, gift_codes, calls, last,
          procs, freeGrants, redeemed,
          channel_cache, notifications, saved, save_last,
          usd_rate, rate_last, fn, an_last>>

----------------------------------------------------------------------------
(* Program constants *)

FREE_CHECKS_PER_DAY == 3
ADMIN_ID == 587349420
AdminGrantDays == 3650
PaymentDays == 30
GrantDays == 30

(* Bounds of the model *)

TicksPerDay == 2
MaxTime == 2
MaxCallsPerDay == 5
NumProcs == 2
Preloaded == 99
NewHandles == 1
MaxNotifications == 2

\* The inputs the actions draw from: the admin and one ordinary user, two
\* gift codes, two day values of a gift code.
Users == {ADMIN_ID, 1}
Codes == {"GIFT-A", "GIFT-B"}
GiftDays == {1, 30}

Procs == 1..NumProcs

Day(t) == t \div TicksPerDay

----------------------------------------------------------------------------
(* Subscriptions *)

\* SELECT COUNT(*) ... WHERE user_id = u AND expires_at > NOW(); a store
\* failure is caught and answered with False.
is_premium_flipped(subs, u, t, lookupOk) ==
    IF lookupOk THEN u \in DOMAIN subs /\ subs[u] < t ELSE FALSE

is_premium(subs, u, t, lookupOk) ==
    IF lookupOk THEN u \in DOMAIN subs /\ subs[u] > t ELSE FALSE

\* INSERT ... ON CONFLICT(user_id) DO UPDATE SET expires_at = EXCLUDED.expires_at
add_subscription(subs, u, days, t) ==
    [x \in DOMAIN subs \cup {u} |->
        IF x = u THEN t + days * TicksPerDay ELSE subs[x]]

----------------------------------------------------------------------------
(* The daily free-tier counter *)

\* SELECT count FROM daily_checks WHERE user_id = u AND date = d;
\* row[0] if row else 0
SelectCount_latestRow(dc, u, d) ==
    LET days == {k[2] : k \in {j \in DOMAIN dc : j[1] = u /\ j[2] <= d}}
    IN IF days = {} THEN 0
       ELSE dc[<<u, CHOOSE x \in days : \A y \in days : y <= x>>]

SelectCount(dc, u, d) ==
    IF <<u, d>> \in DOMAIN dc THEN dc[<<u, d>>] ELSE 0

\* INSERT (u, d, 1) ON CONFLICT DO UPDATE SET count = daily_checks.count + 1
UpsertCount_everyDay(dc, u, d) ==
    [k \in DOMAIN dc \cup {<<u, d>>} |->
        IF k[1] = u THEN SelectCount(dc, k[1], k[2]) + 1 ELSE dc[k]]

UpsertCount(dc, u, d) ==
    [k \in DOMAIN dc \cup {<<u, d>>} |->
        IF k = <<u, d>> THEN SelectCount(dc, u, d) + 1 ELSE dc[k]]

\* The decision check_daily_limit takes on the count it has read.
UnderLimit_offByOne(count) == ~(count > FREE_CHECKS_PER_DAY)

UnderLimit(count) == ~(count >= FREE_CHECKS_PER_DAY)

\* One whole call: what it returns and the table it leaves.
check_daily_limit_grantsUncounted(subs, dc, u, t, lookupOk) ==
    IF is_premium(subs, u, t, lookupOk)
    THEN [granted |-> TRUE, daily_checks |-> dc]
    ELSE IF UnderLimit(SelectCount(dc, u, Day(t)))
         THEN [granted |-> TRUE, daily_checks |-> dc]
         ELSE [granted |-> FALSE, daily_checks |-> dc]

check_daily_limit(subs, dc, u, t, lookupOk) ==
    IF is_premium(subs, u, t, lookupOk)
    THEN [granted |-> TRUE, daily_checks |-> dc]
    ELSE IF UnderLimit(SelectCount(dc, u, Day(t)))
         THEN [granted |-> TRUE, daily_checks |-> UpsertCount(dc, u, Day(t))]
         ELSE [granted |-> FALSE, daily_checks |-> dc]

----------------------------------------------------------------------------
(* Gift codes.  The columns created_at and used_at are written and never  *)
(* read by the program; they are left out of the row.                     *)

NoUser == 0

\* INSERT INTO gift_codes (code, days): used defaults to FALSE, used_by to NULL
InsertGiftCode(gc, c, days) ==
    [x \in DOMAIN gc \cup {c} |->
        IF x = c THEN [days |-> days, used |-> FALSE, used_by |-> NoUser]
        ELSE gc[x]]

\* UPDATE gift_codes SET used = TRUE, used_by = u WHERE code = c
MarkUsed_noUsedBy(gc, c, u) ==
    [gc EXCEPT ![c] = [@ EXCEPT !.used = TRUE]]

MarkUsed(gc, c, u) ==
    [gc EXCEPT ![c] = [@ EXCEPT !.used = TRUE, !.used_by = u]]

\* The steps of redeem_gift_code at which the store can fail.
RedeemSteps == <<"select", "update", "add_subscription", "get_expiry">>
RedeemFailures == {"none"} \cup {RedeemSteps[i] : i \in 1..Len(RedeemSteps)}

\* One whole call of redeem_gift_code(c, u) at time t, the store failing at
\* step failAt (or nowhere): the outcome and the two tables it leaves.
redeem_gift_code_noUsedCheck(gc, subs, c, u, t, failAt) ==
    LET out(res, g, s) == [result |-> res, gift_codes |-> g, subscriptions |-> s]
    IN IF failAt = "select" THEN out("raised", gc, subs)
       ELSE IF c \notin DOMAIN gc THEN out("not_found", gc, subs)
       ELSE IF failAt = "update" THEN out("raised", gc, subs)
       ELSE IF failAt = "add_subscription"
            THEN out("raised", MarkUsed(gc, c, u), subs)
       ELSE out(IF failAt = "get_expiry" THEN "raised" ELSE "ok",
                MarkUsed(gc, c, u),
                add_subscription(subs, u, gc[c].days, t))

redeem_gift_code(gc, subs, c, u, t, failAt) ==
    LET out(res, g, s) == [result |-> res, gift_codes |-> g, subscriptions |-> s]
    IN IF failAt = "select" THEN out("raised", gc, subs)
       ELSE IF c \notin DOMAIN gc THEN out("not_found", gc, subs)
       ELSE IF gc[c].used THEN out("used", gc, subs)
       ELSE IF failAt = "update" THEN out("raised", gc, subs)
       ELSE IF failAt = "add_subscription"
            THEN out("raised", MarkUsed(gc, c, u), subs)
       ELSE out(IF failAt = "get_expiry" THEN "raised" ELSE "ok",
                MarkUsed(gc, c, u),
                add_subscription(subs, u, gc[c].days, t))

----------------------------------------------------------------------------
(* Numbers.  A float of the program is an exact fraction in lowest terms   *)
(* with a positive denominator; the model takes float arithmetic to be     *)
(* exact.                                                                  *)

Abs(n) == IF n < 0 THEN -n ELSE n

RECURSIVE GCD(_, _)
GCD(a, b) == IF b = 0 THEN a ELSE GCD(b, a % b)

\* n / d for d > 0
Rat(n, d) ==
    LET g == GCD(Abs(n), d) IN [num |-> n \div g, den |-> d \div g]

Whole(n) == [num |-> n, den |-> 1]

RatAdd(a, b) == Rat(a.num * b.den + b.num * a.den, a.den * b.den)

\* a * b, cancelling across before multiplying
RatMul(a, b) ==
    LET g1 == GCD(Abs(a.num), b.den)
        g2 == GCD(Abs(b.num), a.den)
    IN IF a.num = 0 \/ b.num = 0 THEN Whole(0)
       ELSE [num |-> (a.num \div g1) * (b.num \div g2),
             den |-> (a.den \div g2) * (b.den \div g1)]

\* a / k for a whole k > 0
RatDiv(a, k) == RatMul(a, Rat(1, k))

\* a >= k for a whole k
RatGE(a, k) == a.num >= k * a.den

\* int(a): the fraction is cut off, towards zero
Trunc(a) ==
    IF a.num >= 0 THEN a.num \div a.den ELSE -((-a.num) \div a.den)

----------------------------------------------------------------------------
(* The channel cache.  A username is a number standing for a handle.  The  *)
(* store already holds Preloaded rows of earlier analyses, for usernames   *)
(* 1..Preloaded; the saves of the model touch username 1 alone among them, *)
(* so channel_cache holds the rows of the usernames in SaveHandles and the *)
(* other UntouchedRows rows of the table are counted, not stored.          *)

CACHE_NOTIFY_MILESTONES == {100, 250, 500, 1000}

\* The arguments of a save other than the username.
OldSnapshot ==
    [members |-> 500, avg_views |-> Whole(50), er |-> Whole(10),
     niche |-> "news", fair_price |-> 45, posts_per_day |-> Whole(1)]
Snapshots ==
    {[members |-> 1000, avg_views |-> Whole(300), er |-> Whole(30),
      niche |-> "default", fair_price |-> 540, posts_per_day |-> Whole(2)],
     [members |-> 1000, avg_views |-> Whole(40), er |-> Whole(4),
      niche |-> "crypto", fair_price |-> 1440, posts_per_day |-> Whole(0)]}

\* The usernames saved: one the store already holds, and new ones.
SaveHandles == {1} \cup (Preloaded + 1 .. Preloaded + NewHandles)

Row(h, snap, t) ==
    [username |-> h, members |-> snap.members, avg_views |-> snap.avg_views,
     er |-> snap.er, niche |-> snap.niche, fair_price |-> snap.fair_price,
     posts_per_day |-> snap.posts_per_day, updated_at |-> t]

\* The seven columns a save sets from its arguments.
SnapshotOf(r) ==
    [members |-> r.members, avg_views |-> r.avg_views, er |-> r.er,
     niche |-> r.niche, fair_price |-> r.fair_price,
     posts_per_day |-> r.posts_per_day]

\* INSERT ... ON CONFLICT(username) DO UPDATE SET every column, updated_at = NOW()
UpsertChannel_insertOnly(cache, h, snap, t) ==
    cache \cup {Row(h, snap, t)}

UpsertChannel(cache, h, snap, t) ==
    {r \in cache : r.username # h} \cup {Row(h, snap, t)}

UntouchedRows == Preloaded - 1

\* SELECT COUNT(*) FROM channel_cache
CountChannels(cache) == Cardinality(cache) + UntouchedRows

\* The steps of save_channel_cache at which the store can fail; the failure
\* is caught and logged.
SaveFailures == {"none", "upsert", "count"}

\* One whole call: the table it leaves and whether it sends the milestone
\* message to the admin.
save_channel_cache(cache, h, snap, t, failAt) ==
    IF failAt = "upsert" THEN [channel_cache |-> cache, notify |-> FALSE]
    ELSE LET after == UpsertChannel(cache, h, snap, t)
         IN [channel_cache |-> after,
             notify |-> failAt = "none"
                         /\ CountChannels(after) \in CACHE_NOTIFY_MILESTONES]

\* Lines 212-220, after the commit: the message to the admin when the count
\* is a milestone.  What urlopen raises is caught and logged; r is what the
\* statements before left.
NotifyAdmin_failureSurfaces(r, notifyOk) ==
    [channel_cache |-> r.channel_cache, sent |-> r.notify /\ notifyOk,
     raised |-> r.notify /\ ~notifyOk]

NotifyAdmin(r, notifyOk) ==
    [channel_cache |-> r.channel_cache, sent |-> r.notify /\ notifyOk,
     raised |-> FALSE]

----------------------------------------------------------------------------
(* The exchange rate cache.  Rates are whole roubles per dollar.           *)

InitialRate == 90
FallbackRate == 90
NumSources == 3
NoDate == -1

\* What one source answers: a rate, or a failure of the request, of the
\* parse or of the extractor.
SourceRates == {80, 95}
SourceOutcomes ==
    {[ok |-> FALSE, rate |-> 0]} \cup {[ok |-> TRUE, rate |-> r] : r \in SourceRates}

\* The first source of the list, from position i on, that answers (0: none).
RECURSIVE FirstSuccess(_, _)
FirstSuccess(outcomes, i) ==
    IF i > NumSources THEN 0
    ELSE IF outcomes[i].ok THEN i
    ELSE FirstSuccess(outcomes, i + 1)

\* One whole call on day today: the rate returned, the cache it leaves and
\* the number of sources it contacted.
get_usd_rate_returnsCached(cache, today, outcomes) ==
    IF cache.date = today
    THEN [returned |-> cache.rate, usd_rate |-> cache, contacted |-> 0]
    ELSE LET i == FirstSuccess(outcomes, 1)
         IN IF i = 0
            THEN [returned |-> cache.rate, usd_rate |-> cache,
                  contacted |-> NumSources]
            ELSE [returned |-> outcomes[i].rate,
                  usd_rate |-> [rate |-> outcomes[i].rate, date |-> today],
                  contacted |-> i]

get_usd_rate_ignoresStamp(cache, today, outcomes) ==
    LET i == FirstSuccess(outcomes, 1)
    IN IF i = 0
       THEN [returned |-> FallbackRate, usd_rate |-> cache,
             contacted |-> NumSources]
       ELSE [returned |-> outcomes[i].rate,
             usd_rate |-> [rate |-> outcomes[i].rate, date |-> today],
             contacted |-> i]

get_usd_rate(cache, today, outcomes) ==
    IF cache.date = today
    THEN [returned |-> cache.rate, usd_rate |-> cache, contacted |-> 0]
    ELSE LET i == FirstSuccess(outcomes, 1)
         IN IF i = 0
            THEN [returned |-> FallbackRate, usd_rate |-> cache,
                  contacted |-> NumSources]
            ELSE [returned |-> outcomes[i].rate,
                  usd_rate |-> [rate |-> outcomes[i].rate, date |-> today],
                  contacted |-> i]

----------------------------------------------------------------------------
(* Message text.  A text is a sequence of characters; the characters that *)
(* matter to extract_username are a letter and the underscore (both of the *)
(* class [a-zA-Z0-9_]), the hyphen (outside it), the separators '/' and    *)
(* '?', the space and '@'.                                                 *)

MaxHandleLen == 4

WordChars == {"a", "_"}
Whitespace == {" "}
Alphabet == WordChars \cup Whitespace \cup {"-", "/", "?", "@"}

\* Every text of at most n characters of the alphabet.
TextsUpTo(n) == UNION {[1..k -> Alphabet] : k \in 0..n}

RECURSIVE lstrip(_)
lstrip(s) == IF s # << >> /\ Head(s) \in Whitespace THEN lstrip(Tail(s)) ELSE s

RECURSIVE rstrip(_)
rstrip(s) ==
    IF s # << >> /\ s[Len(s)] \in Whitespace
    THEN rstrip(SubSeq(s, 1, Len(s) - 1)) ELSE s

\* str.strip()
strip(s) == rstrip(lstrip(s))

\* pat occurs in s at position i
OccursAt(s, pat, i) == \A j \in 1..Len(pat) : s[i + j - 1] = pat[j]

\* The positions at which pat occurs in s.
Occurrences(s, pat) ==
    {i \in 1..(Len(s) - Len(pat) + 1) : OccursAt(s, pat, i)}

\* pat in s
Contains(s, pat) == \E i \in 1..(Len(s) - Len(pat) + 1) : OccursAt(s, pat, i)

\* s.split(pat)[-1], for a pat that cannot overlap itself: what follows the
\* last occurrence of pat.
SplitLast(s, pat) ==
    IF ~Contains(s, pat) THEN s
    ELSE LET i == CHOOSE j \in Occurrences(s, pat) :
                      \A k \in Occurrences(s, pat) : k <= j
         IN SubSeq(s, i + Len(pat), Len(s))

\* s.split(c)[0] and re.split(r'\s', s)[0]: what precedes the first
\* character of s that is in seps.
SplitFirst(s, seps) ==
    LET hits == {i \in 1..Len(s) : s[i] \in seps}
    IN IF hits = {} THEN s
       ELSE SubSeq(s, 1, (CHOOSE j \in hits : \A k \in hits : j <= k) - 1)

\* re.match(r'^[a-zA-Z0-9_]+$', s), on a text that ends in no newline
MatchesWord(s) == s # << >> /\ \A i \in 1..Len(s) : s[i] \in WordChars

TME == <<"t", ".", "m", "e", "/">>

\* None; the function returns no empty handle.
NoHandle == << >>

extract_username_noLength(text0) ==
    LET text == strip(text0)
    IN IF Contains(text, TME)
       THEN strip(SplitFirst(SplitFirst(SplitLast(text, TME), {"/"}), {"?"}))
       ELSE IF text # << >> /\ Head(text) = "@"
       THEN LET first_word == SplitFirst(Tail(text), Whitespace)
            IN strip(SplitFirst(SplitFirst(first_word, {"/"}), {"?"}))
       ELSE IF MatchesWord(text) THEN text
       ELSE NoHandle

extract_username(text0) ==
    LET text == strip(text0)
    IN IF Contains(text, TME)
       THEN strip(SplitFirst(SplitFirst(SplitLast(text, TME), {"/"}), {"?"}))
       ELSE IF text # << >> /\ Head(text) = "@"
       THEN LET first_word == SplitFirst(Tail(text), Whitespace)
            IN strip(SplitFirst(SplitFirst(first_word, {"/"}), {"?"}))
       ELSE IF MatchesWord(text) /\ Len(text) >= 4 THEN text
       ELSE NoHandle

\* The three shapes in which a message names a channel x.
Shapes == {"link", "mention", "bare"}
Shaped(shape, x) ==
    CASE shape = "link" -> TME \o x
      [] shape = "mention" -> <<"@">> \o x
      [] shape = "bare" -> x

----------------------------------------------------------------------------
(* Niche detection.  A Cyrillic letter is written as its transliteration   *)
(* in angle brackets ("<k>" is the letter ka, "<K>" its capital); every    *)
(* other character is written as itself.                                   *)

NICHE_KEYWORDS ==
    <<
      [niche |-> "arbitrage", keywords |-> <<
          <<"<a>", "<r>", "<b>", "<i>", "<t>", "<r>", "<a>", "<zh>">>,
          <<"<t>", "<r>", "<a>", "<f>", "<i>", "<k>">>,
          <<"t", "r", "a", "f", "f", "i", "c">>,
          <<"<p>", "<a>", "<r>", "<t>", "<n>", "<yo>", "<r>", "<k>">>,
          <<"<p>", "<a>", "<r>", "<t>", "<n>", "<e>", "<r>", "<k>">>,
          <<"c", "p", "a">>,
          <<"o", "f", "f", "e", "r", "w", "a", "l", "l", "s">>,
          <<"<o>", "<f>", "<f>", "<e>", "<r>">>,
          <<"a", "f", "f", "i", "l", "i", "a", "t", "e">>,
          <<"<l>", "<i>", "<d>">>,
          <<"<k>", "<o>", "<n>", "<v>", "<e>", "<r>", "<s>", "<i>">>,
          <<"c", "l", "i", "c", "k">>, <<"<k>", "<l>", "<i>", "<k>">>,
          <<"<m>", "<e>", "<d>", "<i>", "<a>", "<b>", "<a>", "<j>">>,
          <<"m", "e", "d", "i", "a", " ", "b", "u", "y">>,
          <<"<b>", "<a>", "<i>", "<n>", "<g>">>,
          <<"<b>", "<a>", "<e>", "<r>">>,
          <<"w", "e", "b", "m", "a", "s", "t", "e", "r">>,
          <<"<v>", "<e>", "<b>", "<m>", "<a>", "<s>", "<t>", "<e>", "<r>">>,
          <<"<m>", "<o>", "<n>", "<e>", "<t>", "<i>", "<z>", "<a>", "<c>">>>>],
      [niche |-> "crypto", keywords |-> <<
          <<"<k>", "<r>", "<i>", "<p>", "<t>">>,
          <<"b", "i", "t", "c", "o", "i", "n">>, <<"b", "t", "c">>,
          <<"e", "t", "h">>, <<"w", "e", "b", "3">>, <<"n", "f", "t">>,
          <<"<b>", "<l>", "<o>", "<k>", "<ch>", "<e>", "<j>", "<n>">>,
          <<"d", "e", "f", "i">>, <<"<t>", "<o>", "<k>", "<e>", "<n>">>,
          <<"b", "i", "n", "a", "n", "c", "e">>,
          <<"<b>", "<i>", "<r>", "<zh>", "<a>">>,
          <<"<t>", "<r>", "<e>", "<j>", "<d>">>,
          <<"<a>", "<l>", "<soft>", "<t>", "<k>", "<o>", "<i>", "<n>">>>>],
      [niche |-> "finance", keywords |-> <<
          <<"<f>", "<i>", "<n>", "<a>", "<n>", "<s>">>,
          <<"<i>", "<n>", "<v>", "<e>", "<s>", "<t>", "<i>", "<c>">>,
          <<"<a>", "<k>", "<c>", "<i>">>,
          <<"<f>", "<o>", "<n>", "<d>", "<o>", "<v>">>,
          <<"<b>", "<i>", "<r>", "<zh>", "<a>">>,
          <<"<d>", "<o>", "<h>", "<o>", "<d>">>,
          <<"<z>", "<a>", "<r>", "<a>", "<b>", "<o>", "<t>">>,
          <<"<d>", "<e>", "<n>", "<soft>", "<g>", "<i>">>,
          <<"<b>", "<yu>", "<d>", "<zh>", "<e>", "<t>">>,
          <<"<i>", "<p>", "<o>", "<t>", "<e>", "<k>">>,
          <<"<v>", "<k>", "<l>", "<a>", "<d>">>>>],
      [niche |-> "business", keywords |-> <<
          <<"<b>", "<i>", "<z>", "<n>", "<e>", "<s>">>,
          <<"<p>", "<r>", "<e>", "<d>", "<p>", "<r>", "<i>", "<n>", "<i>", "<m>">>,
          <<"<s>", "<t>", "<a>", "<r>", "<t>", "<a>", "<p>">>,
          <<"<m>", "<a>", "<r>", "<k>", "<e>", "<t>", "<p>", "<l>", "<e>", "<j>", "<s>">>,
          <<"w", "i", "l", "d", "b", "e", "r", "r", "i", "e", "s">>,
          <<"o", "z", "o", "n">>,
          <<"<p>", "<r>", "<o>", "<d>", "<a>", "<zh>", "<i>">>,
          <<"b", "2", "b">>>>],
      [niche |-> "it", keywords |-> <<
          <<"i", "t">>,
          <<"<p>", "<r>", "<o>", "<g>", "<r>", "<a>", "<m>", "<m>", "<i>", "<r>">>,
          <<"<r>", "<a>", "<z>", "<r>", "<a>", "<b>", "<o>", "<t>">>,
          <<"p", "y", "t", "h", "o", "n">>,
          <<"j", "a", "v", "a", "s", "c", "r", "i", "p", "t">>,
          <<"d", "e", "v", "o", "p", "s">>,
          <<"s", "o", "f", "t", "w", "a", "r", "e">>, <<"<k>", "<o>", "<d>">>,
          <<"<p>", "<r>", "<i>", "<l>", "<o>", "<zh>", "<e>", "<n>", "<i>">>,
          <<"t", "e", "c", "h">>>>],
      [niche |-> "education", keywords |-> <<
          <<"<o>", "<b>", "<r>", "<a>", "<z>", "<o>", "<v>", "<a>", "<n>">>,
          <<"<o>", "<b>", "<u>", "<ch>", "<e>", "<n>">>,
          <<"<k>", "<u>", "<r>", "<s>">>, <<"<u>", "<ch>", "<yo>", "<b>">>,
          <<"<sh>", "<k>", "<o>", "<l>">>,
          <<"<u>", "<n>", "<i>", "<v>", "<e>", "<r>", "<s>", "<i>", "<t>", "<e>", "<t>">>,
          <<"<u>", "<r>", "<o>", "<k>">>,
          <<"<z>", "<n>", "<a>", "<n>", "<i>">>,
          <<"<n>", "<a>", "<v>", "<y>", "<k>">>>>],
      [niche |-> "lifestyle", keywords |-> <<
          <<"<l>", "<a>", "<j>", "<f>", "<s>", "<t>", "<a>", "<j>", "<l>">>,
          <<"<k>", "<r>", "<a>", "<s>", "<o>", "<t>">>,
          <<"<m>", "<o>", "<d>", "<a>">>,
          <<"<s>", "<t>", "<i>", "<l>", "<soft>">>,
          <<"b", "e", "a", "u", "t", "y">>,
          <<"<k>", "<o>", "<s>", "<m>", "<e>", "<t>", "<i>", "<k>">>,
          <<"<z>", "<d>", "<o>", "<r>", "<o>", "<v>", "<soft>">>,
          <<"<f>", "<i>", "<t>", "<n>", "<e>", "<s>">>,
          <<"<p>", "<i>", "<t>", "<a>", "<n>", "<i>">>>>],
      [niche |-> "sport", keywords |-> <<
          <<"<s>", "<p>", "<o>", "<r>", "<t>">>,
          <<"<f>", "<u>", "<t>", "<b>", "<o>", "<l>">>,
          <<"<h>", "<o>", "<k>", "<k>", "<e>", "<j>">>,
          <<"<b>", "<a>", "<s>", "<k>", "<e>", "<t>", "<b>", "<o>", "<l>">>,
          <<"<t>", "<r>", "<e>", "<n>", "<i>", "<r>", "<o>", "<v>", "<k>">>,
          <<"<s>", "<p>", "<o>", "<r>", "<t>", "<z>", "<a>", "<l>">>,
          <<"<m>", "<a>", "<t>", "<ch>">>,
          <<"<ch>", "<e>", "<m>", "<p>", "<i>", "<o>", "<n>", "<a>", "<t>">>>>],
      [niche |-> "gaming", keywords |-> <<
          <<"<i>", "<g>", "<r>">>, <<"g", "a", "m", "i", "n", "g">>,
          <<"<g>", "<e>", "<j>", "<m>", "<e>", "<r>">>,
          <<"<s>", "<t>", "<r>", "<i>", "<m>">>,
          <<"t", "w", "i", "t", "c", "h">>,
          <<"e", "s", "p", "o", "r", "t", "s">>,
          <<"<k>", "<i>", "<b>", "<e>", "<r>", "<s>", "<p>", "<o>", "<r>", "<t>">>>>],
      [niche |-> "news", keywords |-> <<
          <<"<n>", "<o>", "<v>", "<o>", "<s>", "<t>">>,
          <<"<p>", "<o>", "<l>", "<i>", "<t>", "<i>", "<k>">>,
          <<"<m>", "<e>", "<d>", "<i>", "<a>">>, <<"<s>", "<m>", "<i>">>,
          <<"<r>", "<e>", "<p>", "<o>", "<r>", "<t>", "<a>", "<zh>">>,
          <<"<s>", "<o>", "<b>", "<y>", "<t>", "<i>", "<ya>">>,
          <<"<p>", "<r>", "<o>", "<i>", "<s>", "<sh>", "<e>", "<s>", "<t>", "<v>", "<i>">>>>],
      [niche |-> "entertainment", keywords |-> <<
          <<"<yu>", "<m>", "<o>", "<r>">>, <<"<m>", "<e>", "<m>">>,
          <<"<r>", "<a>", "<z>", "<v>", "<l>", "<e>", "<ch>", "<e>", "<n>">>,
          <<"<p>", "<r>", "<i>", "<k>", "<o>", "<l>", "<y>">>,
          <<"<s>", "<m>", "<e>", "<sh>", "<n>">>,
          <<"e", "n", "t", "e", "r", "t", "a", "i", "n", "m", "e", "n", "t">>,
          <<"<sh>", "<o>", "<u>">>>>]
    >>

\* str.lower(), on the capitals the texts below contain
LowerChar(c) == CASE c = "P" -> "p" [] c = "<B>" -> "<b>" [] OTHER -> c
lower(s) == [i \in 1..Len(s) |-> LowerChar(s[i])]

\* any(kw in text for kw in keywords)
AnyKeywordIn(text, keywords) ==
    \E k \in 1..Len(keywords) : Contains(text, keywords[k])

\* The loop over NICHE_KEYWORDS.items(), from entry i on.
RECURSIVE FirstNiche(_, _)
FirstNiche(text, i) ==
    IF i > Len(NICHE_KEYWORDS) THEN "default"
    ELSE IF AnyKeywordIn(text, NICHE_KEYWORDS[i].keywords)
    THEN NICHE_KEYWORDS[i].niche
    ELSE FirstNiche(text, i + 1)

\* f"{description} {title} {username}".lower()
NicheText(description, title, username) ==
    lower(description \o <<" ">> \o title \o <<" ">> \o username)

RECURSIVE LastNiche(_, _)
LastNiche(text, i) ==
    IF i < 1 THEN "default"
    ELSE IF AnyKeywordIn(text, NICHE_KEYWORDS[i].keywords)
    THEN NICHE_KEYWORDS[i].niche
    ELSE LastNiche(text, i - 1)

detect_niche_lastWins(description, title, username) ==
    LastNiche(NicheText(description, title, username), Len(NICHE_KEYWORDS))

detect_niche(description, title, username) ==
    FirstNiche(NicheText(description, title, username), 1)

\* Words of channel descriptions, titles and usernames: of one category, of
\* two categories, of none.
NicheWords ==
    {<< >>,
     <<"b", "i", "t", "c", "o", "i", "n">>,
     <<"P", "y", "t", "h", "o", "n">>,
     <<"x", "y", "z">>,
     <<"<k>", "<i>", "<b>", "<e>", "<r>", "<s>", "<p>", "<o>", "<r>", "<t>">>,
     <<"<B>", "<i>", "<r>", "<zh>", "<a>">>,
     <<"<m>", "<e>", "<d>", "<i>", "<a>", "<b>", "<a>", "<j>">>,
     <<"<n>", "<o>", "<v>", "<o>", "<s>", "<t>", "<i>">>,
     <<"<sh>", "<o>", "<u>">>,
     <<"<k>", "<u>", "<r>", "<s>">>}
NicheUsernames ==
    {<<"x", "y", "z">>,
     <<"k", "i", "t">>,
     <<"s", "t", "r", "e", "a", "m">>}

----------------------------------------------------------------------------
(* The preview page.  Of the page the model keeps what the two regular     *)
(* expressions of get_post_views capture: the texts of the view markers,   *)
(* each a sequence of characters, and the datetime attributes.  The view   *)
(* texts are written with digits, the point, the sign, the space and the   *)
(* letters K, M and k.                                                     *)

MaxPosts == 3

Digits == {"0", "1", "2", "3", "4", "5", "6", "7", "8", "9"}
DigitValue(c) ==
    CASE c = "0" -> 0 [] c = "1" -> 1 [] c = "2" -> 2 [] c = "3" -> 3
      [] c = "4" -> 4 [] c = "5" -> 5 [] c = "6" -> 6 [] c = "7" -> 7
      [] c = "8" -> 8 [] c = "9" -> 9

RECURSIVE DecimalValue(_)
DecimalValue(s) ==
    IF s = << >> THEN 0
    ELSE 10 * DecimalValue(SubSeq(s, 1, Len(s) - 1)) + DigitValue(s[Len(s)])

RECURSIVE Pow10(_)
Pow10(k) == IF k = 0 THEN 1 ELSE 10 * Pow10(k - 1)

\* s.replace(c, '') for every c of chars
Remove(s, chars) == SelectSeq(s, LAMBDA c : c \notin chars)

Chars(s) == {s[i] : i \in 1..Len(s)}

\* float(s) on a text of digits, points and signs: an optional sign, then
\* digits with at most one point among them and at least one digit.
\* ok is FALSE where float raises ValueError.
float(s0) ==
    LET s == strip(s0)
        signed == s # << >> /\ Head(s) \in {"-", "+"}
        body == IF signed THEN Tail(s) ELSE s
        points == {i \in 1..Len(body) : body[i] = "."}
        digits == Remove(body, {"."})
        ok == /\ Cardinality(points) <= 1
              /\ digits # << >>
              /\ Chars(digits) \subseteq Digits
        fraction == IF points = {} THEN 0
                    ELSE Len(body) - (CHOOSE i \in points : TRUE)
        magnitude == DecimalValue(digits)
    IN IF ~ok THEN [ok |-> FALSE, value |-> Whole(0)]
       ELSE [ok |-> TRUE,
             value |-> Rat(IF signed /\ Head(s) = "-" THEN -magnitude
                           ELSE magnitude, Pow10(fraction))]

\* One pass of the loop over views_raw: the text without its spaces, the
\* suffix K or M taken for a factor; a text float rejects is skipped.
ViewValue(raw) ==
    LET v == Remove(strip(raw), {" ", "nbsp"})
        times(f, k) == [ok |-> f.ok, value |-> RatMul(f.value, Whole(k))]
    IN IF "K" \in Chars(v) THEN times(float(Remove(v, {"K"})), 1000)
       ELSE IF "M" \in Chars(v) THEN times(float(Remove(v, {"M"})), 1000000)
       ELSE float(v)

RECURSIVE ParseViews(_)
ParseViews(views_raw) ==
    IF views_raw = << >> THEN << >>
    ELSE LET f == ViewValue(Head(views_raw))
         IN (IF f.ok THEN <<f.value>> ELSE << >>) \o ParseViews(Tail(views_raw))

\* The statuses the preview answers with.  The opener follows no redirect, so
\* every status outside 200..299 reaches the caller as an HTTPError.
HttpStatuses == {200, 204, 300, 301, 302, 303, 304, 307, 308, 403, 404, 429, 500}
RedirectStatuses == {301, 302, 303, 307, 308}
IsHttpError(status) == status \notin 200..299

Raised == [raised |-> TRUE, views |-> << >>, dates |-> << >>]

\* resp: whether the request got an answer at all (no timeout, no transport
\* error), the status, and what the page holds.
get_post_views_swallowsAll(resp) ==
    IF ~resp.answered THEN Raised
    ELSE IF IsHttpError(resp.status)
    THEN [raised |-> FALSE, views |-> << >>, dates |-> << >>]
    ELSE [raised |-> FALSE, views |-> ParseViews(resp.views_raw),
          dates |-> resp.dates]

get_post_views(resp) ==
    IF ~resp.answered THEN Raised
    ELSE IF IsHttpError(resp.status)
    THEN IF resp.status \in RedirectStatuses
         THEN [raised |-> FALSE, views |-> << >>, dates |-> << >>]
         ELSE Raised
    ELSE [raised |-> FALSE, views |-> ParseViews(resp.views_raw),
          dates |-> resp.dates]

\* The texts of view markers: "1.2K", "900", "3M", "-5", "1 200", "1.2k".
ViewTexts ==
    {<<"1", ".", "2", "K">>, <<"9", "0", "0">>, <<"3", "M">>, <<"-", "5">>,
     <<"1", " ", "2", "0", "0">>, <<"1", ".", "2", "k">>}

\* A datetime attribute: the tick it names, or a text fromisoformat rejects.
GoodDate(t) == [ok |-> TRUE, at |-> t]
BadDate == [ok |-> FALSE, at |-> 0]
DateLists ==
    {<< >>, <<GoodDate(0), GoodDate(3)>>, <<GoodDate(3), BadDate, GoodDate(0)>>}

SeqsUpTo(S, n) == UNION {[1..k -> S] : k \in 0..n}

Responses ==
    [answered : BOOLEAN, status : HttpStatuses,
     views_raw : SeqsUpTo(ViewTexts, MaxPosts), dates : DateLists]

----------------------------------------------------------------------------
(* Pricing *)

CPM_BY_NICHE ==
    [niche \in {"arbitrage", "crypto", "finance", "business", "it",
                "education", "lifestyle", "sport", "gaming", "news",
                "entertainment", "default"} |->
        CASE niche = "arbitrage" -> 45000
          [] niche = "crypto" -> 36000
          [] niche = "finance" -> 13500
          [] niche = "business" -> 7200
          [] niche = "it" -> 5400
          [] niche = "education" -> 2700
          [] niche = "lifestyle" -> 1800
          [] niche = "sport" -> 1350
          [] niche = "gaming" -> 1350
          [] niche = "news" -> 900
          [] niche = "entertainment" -> 720
          [] niche = "default" -> 1800]

\* CPM_BY_NICHE.get(niche, CPM_BY_NICHE["default"])
CpmOf(niche) ==
    IF niche \in DOMAIN CPM_BY_NICHE THEN CPM_BY_NICHE[niche]
    ELSE CPM_BY_NICHE["default"]

RECURSIVE Sum(_)
Sum(values) ==
    IF values = << >> THEN Whole(0) ELSE RatAdd(Head(values), Sum(Tail(values)))

\* sum(views) / len(views)
Average(views) == RatDiv(Sum(views), Len(views))

calculate_fair_price_roundsUp(avg_views, niche) ==
    LET cpm == CpmOf(niche)
        q == RatMul(avg_views, Rat(cpm, 1000))
    IN [fair_price |-> Trunc(q) + (IF q.den = 1 THEN 0 ELSE 1), cpm |-> cpm]

calculate_fair_price(avg_views, niche) ==
    LET cpm == CpmOf(niche)
    IN [fair_price |-> Trunc(RatMul(avg_views, Rat(cpm, 1000))), cpm |-> cpm]

\* (avg_views / members * 100) if members > 0 else 0
EngagementRate(avg_views, members) ==
    IF members > 0 THEN RatMul(RatDiv(avg_views, members), Whole(100))
    ELSE Whole(0)

get_er_status_exclusive(er) ==
    IF er.num > 20 * er.den THEN "excellent"
    ELSE IF er.num > 10 * er.den THEN "good"
    ELSE IF er.num > 5 * er.den THEN "average"
    ELSE "low"

get_er_status(er) ==
    IF RatGE(er, 20) THEN "excellent"
    ELSE IF RatGE(er, 10) THEN "good"
    ELSE IF RatGE(er, 5) THEN "average"
    ELSE "low"

\* Lines 575-584: the span between the first and the last datetime in whole
\* days (timedelta.days rounds down), 1 for a span of 0; posts_per_day stays
\* 0 with fewer than two datetimes or when one of the two cannot be read.
PostsPerDay(dates) ==
    IF Len(dates) < 2 \/ ~dates[1].ok \/ ~dates[Len(dates)].ok THEN Whole(0)
    ELSE LET days == (dates[1].at - dates[Len(dates)].at) \div TicksPerDay
             span_days == IF Abs(days) = 0 THEN 1 ELSE Abs(days)
         IN Rat(Len(dates), span_days)

\* Whole view counts, averages of which calculate_fair_price is given.
ViewCounts == {0, 1, 900, 1200, 3000000}
MaxEr == 25

----------------------------------------------------------------------------
(* The metadata fetch *)

\* api: what the two requests of get_channel_info meet.  answered and
\* count_answered: urlopen returned a response (no timeout, no transport
\* error, no error status); ok and type: fields of the getChat answer.
get_channel_info(api) ==
    IF ~api.answered THEN [raised |-> "Exception", info |-> api]
    ELSE IF ~api.ok THEN [raised |-> "ValueError", info |-> api]
    ELSE IF api.type \notin {"channel", "supergroup"}
    THEN [raised |-> "ValueError", info |-> api]
    ELSE IF ~api.count_answered THEN [raised |-> "Exception", info |-> api]
    ELSE [raised |-> "none", info |-> api]

Chat(answered, ok, type, count_answered, members, description) ==
    [answered |-> answered, ok |-> ok, type |-> type,
     count_answered |-> count_answered, members |-> members,
     description |-> description, title |-> <<"x", "y", "z">>]

\* A timeout, an unknown channel, a group, a failure of the count request,
\* and two channels that are found.
ApiAnswers ==
    {Chat(FALSE, FALSE, "channel", FALSE, 0, << >>),
     Chat(TRUE, FALSE, "channel", FALSE, 0, << >>),
     Chat(TRUE, TRUE, "group", TRUE, 0, << >>),
     Chat(TRUE, TRUE, "channel", FALSE, 0, << >>),
     Chat(TRUE, TRUE, "channel", TRUE, 1000, << >>),
     Chat(TRUE, TRUE, "supergroup", TRUE, 0,
          <<"b", "i", "t", "c", "o", "i", "n">>)}

\* The handles analysed: one the store holds a row of, and a new one; and
\* the names the two numbers stand for.
AnalyzedHandles == {1, Preloaded + 1}
HandleName(h) ==
    IF h = 1 THEN <<"k", "i", "t", "_", "n", "e", "w", "s">>
    ELSE <<"x", "y", "z", "z">>

\* What the preview answers: a timeout, a redirect, an error status, and
\* pages with view markers "1.2K" "900" "3M", with the marker "-5", and with
\* the one marker "1.2k", which float rejects.
Preview(answered, status, views_raw, dates) ==
    [answered |-> answered, status |-> status, views_raw |-> views_raw,
     dates |-> dates]
PreviewAnswers ==
    {Preview(FALSE, 200, << >>, << >>),
     Preview(TRUE, 302, << >>, << >>),
     Preview(TRUE, 404, << >>, << >>),
     Preview(TRUE, 200, << <<"1", ".", "2", "K">>, <<"9", "0", "0">>,
                           <<"3", "M">> >>, <<GoodDate(0), GoodDate(3)>>),
     Preview(TRUE, 200, << <<"-", "5">> >>, << >>),
     Preview(TRUE, 200, << <<"1", ".", "2", "k">> >>,
             <<GoodDate(3), BadDate, GoodDate(0)>>)}

\* What the rate sources answer: nothing, or 95 from the first.
RateAnswers ==
    {[i \in 1..NumSources |-> [ok |-> FALSE, rate |-> 0]],
     [i \in 1..NumSources |-> [ok |-> TRUE, rate |-> 95]]}

\* The value at which an answer that is not read is held.
NoApi == CHOOSE api \in ApiAnswers : ~api.answered
NoPreview == CHOOSE resp \in PreviewAnswers : ~resp.answered
NoRate == CHOOSE outcomes \in RateAnswers : ~outcomes[1].ok

\* The messages: a gift code, a text naming a channel, any other text.
Messages ==
    {[kind |-> "gift", code |-> "GIFT-A", username |-> 0],
     [kind |-> "other", code |-> "", username |-> 0]}
    \cup {[kind |-> "channel", code |-> "", username |-> h] :
             h \in AnalyzedHandles}

----------------------------------------------------------------------------
(* History *)

\* calls[u] holds, for one calendar day, the results of u's check_daily_limit
\* calls in order, as long as every one of them was made with no active
\* subscription (free); after a call made with an active subscription the
\* day's record is dropped.  denied_before says that on an earlier day a
\* call of u made with no active subscription was denied.
NoCalls == [day |-> 0, free |-> TRUE, seq |-> << >>, denied_before |-> FALSE]

DeniedOnItsDay(c) == c.free /\ \E i \in 1..Len(c.seq) : ~c.seq[i]

CallsOn(u, d) ==
    IF calls[u].day = d THEN calls[u]
    ELSE [NoCalls EXCEPT !.day = d,
                         !.denied_before = calls[u].denied_before
                                               \/ DeniedOnItsDay(calls[u])]

\* What the store holds, whatever a lookup answers.
SubscriptionActive(u) == u \in DOMAIN subscriptions /\ subscriptions[u] > now

NoCall == [name |-> "none", done |-> FALSE]
NoAnalysis ==
    [kind |-> "none", user |-> NoUser, granted |-> FALSE, info |-> "none",
     status |-> 0,
     markers |-> 0, scrape |-> "none", reply |-> "none", steps |-> << >>]

\* A caller that is in no call.
Idle == [pc |-> "idle", user |-> NoUser, code |-> "", today |-> 0, days |-> 0]

Called(op, u, arg, result) ==
    last' = [seq |-> 1 - last.seq, op |-> op, user |-> u, arg |-> arg,
             result |-> result]

----------------------------------------------------------------------------
(* Initial state: init_db on an empty store, which grants the admin. *)

\* The store outlives the process: the ordinary user may hold a subscription
\* bought earlier, which runs out at the first day boundary.
InitProcess ==
    /\ now = 0
    /\ \E old \in {<< >>, [u \in {1} |-> TicksPerDay]} :
          subscriptions = add_subscription(old, ADMIN_ID, AdminGrantDays, 0)
    /\ daily_checks = << >>
    /\ gift_codes = << >>
    /\ calls = [u \in Users |-> NoCalls]
    /\ last = [seq |-> 0, op |-> "init", user |-> ADMIN_ID, arg |-> "",
               result |-> "none"]
    /\ procs = [p \in Procs |-> Idle]
    /\ freeGrants = << >>
    /\ redeemed = [c \in Codes |-> [successes |-> 0, grants |-> 0]]
    /\ channel_cache = {Row(1, OldSnapshot, 0)}
    /\ notifications = 0
    /\ saved = << >>
    /\ save_last = [seq |-> 0, username |-> 0, committed |-> FALSE,
                    notify_failed |-> FALSE, raised |-> FALSE]
    /\ usd_rate = [rate |-> InitialRate, date |-> NoDate]
    /\ rate_last = [seq |-> 0, stale |-> FALSE, all_failed |-> FALSE,
                    contacted |-> 0, returned |-> 0]
    /\ an_last = NoAnalysis

\* No function of the analysis is under call.
Init == InitProcess /\ fn = NoCall

----------------------------------------------------------------------------
(* Actions *)

Tick ==
    /\ now < MaxTime
    /\ now' = now + 1
    /\ UNCHANGED <<dbVars, calls, last, concVars, cacheVars, rateVars, fnVars, anVars>>

CheckDailyLimit(u, lookupOk) ==
    LET r == check_daily_limit(subscriptions, daily_checks, u, now, lookupOk)
        before == CallsOn(u, Day(now))
        free == before.free /\ ~SubscriptionActive(u)
    IN /\ Len(before.seq) < MaxCallsPerDay
       /\ daily_checks' = r.daily_checks
       /\ calls' = [calls EXCEPT ![u] =
                        [day |-> Day(now), free |-> free,
                         seq |-> IF free THEN Append(before.seq, r.granted)
                                 ELSE << >>,
                         denied_before |-> before.denied_before]]
       /\ Called("check_daily_limit", u, IF lookupOk THEN "ok" ELSE "failed",
                 IF r.granted THEN "granted" ELSE "denied")
       /\ UNCHANGED <<now, subscriptions, gift_codes, concVars, cacheVars, rateVars, fnVars, anVars>>

SuccessfulPayment(u) ==
    /\ subscriptions' = add_subscription(subscriptions, u, PaymentDays, now)
    /\ Called("successful_payment", u, "", "ok")
    /\ UNCHANGED <<now, daily_checks, gift_codes, calls, concVars, cacheVars, rateVars, fnVars, anVars>>

\* /grant <user_id>: the caller is compared with the admin id, and a grant
\* without an argument is made to the caller.
GrantCommand_anyCaller(caller, target) ==
    /\ subscriptions' = add_subscription(subscriptions, target, GrantDays, now)
    /\ Called("grant_command", caller,
              IF target = ADMIN_ID THEN "admin" ELSE "user",
              IF caller # ADMIN_ID THEN "ignored" ELSE "ok")
    /\ UNCHANGED <<now, daily_checks, gift_codes, calls, concVars, cacheVars, rateVars, fnVars, anVars>>

GrantCommand(caller, target) ==
    /\ subscriptions' = IF caller # ADMIN_ID THEN subscriptions
                        ELSE add_subscription(subscriptions, target, GrantDays, now)
    /\ Called("grant_command", caller,
              IF target = ADMIN_ID THEN "admin" ELSE "user",
              IF caller # ADMIN_ID THEN "ignored" ELSE "ok")
    /\ UNCHANGED <<now, daily_checks, gift_codes, calls, concVars, cacheVars, rateVars, fnVars, anVars>>

\* generate_gift_code: a code already in the table violates the primary key
\* and the INSERT raises.
GenerateGiftCode(c, days) ==
    /\ gift_codes' = IF c \in DOMAIN gift_codes THEN gift_codes
                     ELSE InsertGiftCode(gift_codes, c, days)
    /\ Called("generate_gift_code", ADMIN_ID, c,
              IF c \in DOMAIN gift_codes THEN "raised" ELSE "ok")
    /\ UNCHANGED <<now, subscriptions, daily_checks, calls, concVars, cacheVars, rateVars, fnVars, anVars>>

RedeemGiftCode(c, u, failAt) ==
    LET r == redeem_gift_code(gift_codes, subscriptions, c, u, now, failAt)
    IN /\ gift_codes' = r.gift_codes
       /\ subscriptions' = r.subscriptions
       /\ Called("redeem_gift_code", u, c, r.result)
       /\ UNCHANGED <<now, daily_checks, calls, concVars, cacheVars, rateVars, fnVars, anVars>>

Next ==
    \/ Tick
    \/ \E u \in Users, lookupOk \in BOOLEAN : CheckDailyLimit(u, lookupOk)
    \/ \E u \in Users : SuccessfulPayment(u)
    \/ \E caller \in Users, target \in Users : GrantCommand(caller, target)

\* The entitlement gate, one call at a time.
Spec == Init /\ [][Next]_vars

NextGift ==
    \/ Tick
    \/ \E c \in Codes, days \in GiftDays : GenerateGiftCode(c, days)
    \/ \E c \in Codes, u \in Users, failAt \in RedeemFailures :
          RedeemGiftCode(c, u, failAt)

\* Gift codes, one call at a time.
SpecGift == Init /\ [][NextGift]_vars

\* /giftcode [days]: the caller is compared with the admin id; what
\* generate_gift_code raises is caught and replied.
GiftcodeCommand(caller, c, days) ==
    LET made == caller = ADMIN_ID /\ c \notin DOMAIN gift_codes
    IN /\ gift_codes' = IF made THEN InsertGiftCode(gift_codes, c, days)
                        ELSE gift_codes
       /\ Called("giftcode_command", caller, c,
                 IF caller # ADMIN_ID THEN "ignored"
                 ELSE IF made THEN "ok" ELSE "raised")
       /\ UNCHANGED <<now, subscriptions, daily_checks, calls, concVars, cacheVars, rateVars, fnVars, anVars>>

\* The callback data of the inline buttons; monitor_ stands for the data
\* that start with it.
ButtonData == {"status", "buy", "admin_stats", "admin_giftcode", "monitor_"}

\* button_callback: admin_giftcode makes a code of DefaultGiftDays days for
\* the admin and returns at once for any other caller; admin_stats, status
\* and monitor_ read the store, buy sends an invoice.
DefaultGiftDays == 30

ButtonCallback(caller, data, c) ==
    LET made == /\ data = "admin_giftcode" /\ caller = ADMIN_ID
                /\ c \notin DOMAIN gift_codes
    IN /\ gift_codes' = IF made
                        THEN InsertGiftCode(gift_codes, c, DefaultGiftDays)
                        ELSE gift_codes
       /\ Called("button_callback", caller, data,
                 IF data \in {"admin_stats", "admin_giftcode"}
                 THEN IF caller # ADMIN_ID THEN "ignored"
                      ELSE IF data = "admin_giftcode" /\ ~made THEN "raised"
                      ELSE "ok"
                 ELSE "ok")
       /\ UNCHANGED <<now, subscriptions, daily_checks, calls, concVars, cacheVars, rateVars, fnVars, anVars>>

NextAdmin ==
    \/ Tick
    \/ \E caller \in Users, target \in Users : GrantCommand(caller, target)
    \/ \E caller \in Users, c \in Codes, days \in GiftDays :
          GiftcodeCommand(caller, c, days)
    \/ \E caller \in Users, data \in ButtonData, c \in Codes :
          ButtonCallback(caller, data, c)

\* The admin entry points, one request at a time.
SpecAdmin == Init /\ [][NextAdmin]_vars

----------------------------------------------------------------------------
(* Concurrent callers.  Each caller runs check_daily_limit and             *)
(* redeem_gift_code one store statement at a time, on a connection of its  *)
(* own; every statement commits by itself (the SELECTs take no lock, and   *)
(* the one write of each call is followed by commit()).  Between two       *)
(* statements of one caller the statements of the others may run.          *)

At(p, pc) == procs[p].pc = pc
Goto(p, rec) == procs' = [procs EXCEPT ![p] = rec]

Bump(f, k) == [x \in DOMAIN f \cup {k} |->
                  IF x = k THEN (IF k \in DOMAIN f THEN f[k] ELSE 0) + 1
                  ELSE f[x]]

\* check_daily_limit, line 342: is_premium(user_id)
CdlPremium(p, u, lookupOk) ==
    /\ At(p, "idle")
    /\ IF is_premium(subscriptions, u, now, lookupOk)
       THEN Goto(p, Idle)
       ELSE Goto(p, [Idle EXCEPT !.pc = "cdl_select", !.user = u])
    /\ UNCHANGED <<now, dbVars, calls, last, freeGrants, redeemed, cacheVars, rateVars, fnVars, anVars>>

\* lines 344-352: today, the SELECT of the count, and the ceiling test
CdlSelect(p) ==
    /\ At(p, "cdl_select")
    /\ IF UnderLimit(SelectCount(daily_checks, procs[p].user, Day(now)))
       THEN Goto(p, [procs[p] EXCEPT !.pc = "cdl_upsert", !.today = Day(now)])
       ELSE Goto(p, Idle)
    /\ UNCHANGED <<now, dbVars, calls, last, freeGrants, redeemed, cacheVars, rateVars, fnVars, anVars>>

\* lines 353-360: the upsert with its increment, commit, return True
CdlUpsert(p) ==
    /\ At(p, "cdl_upsert")
    /\ daily_checks' = UpsertCount(daily_checks, procs[p].user, procs[p].today)
    /\ freeGrants' = Bump(freeGrants, <<procs[p].user, procs[p].today>>)
    /\ Goto(p, Idle)
    /\ UNCHANGED <<now, subscriptions, gift_codes, calls, last, redeemed, cacheVars, rateVars, fnVars, anVars>>

\* redeem_gift_code, lines 241-249: the SELECT of the row and the two tests
RgcSelect(p, c, u) ==
    /\ At(p, "idle")
    /\ IF c \in DOMAIN gift_codes /\ ~gift_codes[c].used
       THEN Goto(p, [Idle EXCEPT !.pc = "rgc_update", !.user = u, !.code = c,
                                 !.days = gift_codes[c].days])
       ELSE Goto(p, Idle)
    /\ UNCHANGED <<now, dbVars, calls, last, freeGrants, redeemed, cacheVars, rateVars, fnVars, anVars>>

\* lines 250-255: the UPDATE, whose WHERE names the code alone, and commit
RgcUpdate(p) ==
    /\ At(p, "rgc_update")
    /\ gift_codes' = MarkUsed(gift_codes, procs[p].code, procs[p].user)
    /\ Goto(p, [procs[p] EXCEPT !.pc = "rgc_add_subscription"])
    /\ UNCHANGED <<now, subscriptions, daily_checks, calls, last, freeGrants,
                   redeemed, cacheVars, rateVars, fnVars, anVars>>

\* line 256: add_subscription(user_id, days=days)
RgcAddSubscription(p) ==
    /\ At(p, "rgc_add_subscription")
    /\ subscriptions' =
           add_subscription(subscriptions, procs[p].user, procs[p].days, now)
    /\ redeemed' = [redeemed EXCEPT ![procs[p].code].grants = @ + 1]
    /\ Goto(p, [procs[p] EXCEPT !.pc = "rgc_return"])
    /\ UNCHANGED <<now, daily_checks, gift_codes, calls, last, freeGrants,
                   cacheVars, rateVars, fnVars, anVars>>

\* lines 257-258: get_expiry and return True
RgcReturn(p) ==
    /\ At(p, "rgc_return")
    /\ redeemed' = [redeemed EXCEPT ![procs[p].code].successes = @ + 1]
    /\ Goto(p, Idle)
    /\ UNCHANGED <<now, dbVars, calls, last, freeGrants, cacheVars, rateVars, fnVars, anVars>>

\* generate_gift_code is one INSERT
ConcGenerate(c, days) ==
    /\ c \notin DOMAIN gift_codes
    /\ gift_codes' = InsertGiftCode(gift_codes, c, days)
    /\ UNCHANGED <<now, subscriptions, daily_checks, calls, last, concVars,
                   cacheVars, rateVars, fnVars, anVars>>

\* The clock stands still while the calls race.
NextConc ==
    \/ \E c \in Codes, days \in GiftDays : ConcGenerate(c, days)
    \/ \E p \in Procs, u \in Users, lookupOk \in BOOLEAN : CdlPremium(p, u, lookupOk)
    \/ \E p \in Procs : CdlSelect(p)
    \/ \E p \in Procs : CdlUpsert(p)
    \/ \E p \in Procs, c \in Codes, u \in Users : RgcSelect(p, c, u)
    \/ \E p \in Procs : RgcUpdate(p)
    \/ \E p \in Procs : RgcAddSubscription(p)
    \/ \E p \in Procs : RgcReturn(p)

\* The gate and the gift codes under concurrent callers.
SpecConc == Init /\ [][NextConc]_vars

----------------------------------------------------------------------------
(* The channel cache, one save at a time *)

\* notifyOk: whether the sendMessage request to the admin goes through; its
\* failure is caught and logged.
SaveChannelCache(h, snap, failAt, notifyOk) ==
    LET r == save_channel_cache(channel_cache, h, snap, now, failAt)
        n == NotifyAdmin(r, notifyOk)
    IN /\ n.sent => notifications < MaxNotifications
       /\ channel_cache' = n.channel_cache
       /\ notifications' = IF n.sent THEN notifications + 1 ELSE notifications
       /\ saved' = IF failAt = "upsert" THEN saved
                   ELSE [x \in DOMAIN saved \cup {h} |->
                            IF x = h THEN [snapshot |-> snap, at |-> now]
                            ELSE saved[x]]
       /\ save_last' = [seq |-> 1 - save_last.seq, username |-> h,
                        committed |-> failAt # "upsert",
                        notify_failed |-> r.notify /\ ~notifyOk,
                        raised |-> n.raised]
       /\ UNCHANGED <<now, dbVars, calls, last, concVars, rateVars, fnVars, anVars>>

NextCache ==
    \/ Tick
    \/ \E h \in SaveHandles, snap \in Snapshots, failAt \in SaveFailures,
          notifyOk \in BOOLEAN : SaveChannelCache(h, snap, failAt, notifyOk)

SpecCache == Init /\ [][NextCache]_vars

----------------------------------------------------------------------------
(* The exchange rate cache, one call at a time *)

GetUsdRate(outcomes) ==
    LET r == get_usd_rate(usd_rate, Day(now), outcomes)
    IN /\ usd_rate' = r.usd_rate
       /\ rate_last' = [seq |-> 1 - rate_last.seq,
                        stale |-> usd_rate.date # Day(now),
                        all_failed |-> \A i \in 1..NumSources : ~outcomes[i].ok,
                        contacted |-> r.contacted,
                        returned |-> r.returned]
       /\ UNCHANGED <<now, dbVars, calls, last, concVars, cacheVars, fnVars, anVars>>

NextRate ==
    \/ Tick
    \/ \E outcomes \in [1..NumSources -> SourceOutcomes] : GetUsdRate(outcomes)

SpecRate == Init /\ [][NextRate]_vars

----------------------------------------------------------------------------
(* Analyses, one message at a time.  The clock stands still; an_last is    *)
(* the history of this specification, and the history variables of the     *)
(* others stay as they are.  The subscription lookup answers.              *)

\* Lines 568-584: the snapshot analyze_channel computes from the metadata
\* and the views and datetimes scraped.
Snapshot(info, scraped, username) ==
    LET avg_views == Average(scraped.views)
        niche == detect_niche(info.description, info.title,
                              HandleName(username))
    IN [members |-> info.members, avg_views |-> avg_views,
        er |-> EngagementRate(avg_views, info.members), niche |-> niche,
        fair_price |-> calculate_fair_price(avg_views, niche).fair_price,
        posts_per_day |-> PostsPerDay(scraped.dates)]

\* What the remote answers of the model come to, computed once.
Fetched == [api \in ApiAnswers |-> get_channel_info(api)]
Scraped == [resp \in PreviewAnswers |-> get_post_views(resp)]
Computed ==
    [api \in {a \in ApiAnswers : Fetched[a].raised = "none"},
     resp \in {p \in PreviewAnswers : Scraped[p].views # << >>},
     h \in AnalyzedHandles |-> Snapshot(Fetched[api].info, Scraped[resp], h)]

\* One whole call of analyze_channel for a message that names a channel and
\* has been granted: what it replies, the calls it makes in order, and the
\* rate cache and the table it leaves.
Analysis_partialOnScrapeError(msg, api, resp, outcomes, failAt) ==
    LET fetched == Fetched[api]
        scraped == Scraped[resp]
        rate == get_usd_rate(usd_rate, Day(now), outcomes)
        save == save_channel_cache(channel_cache, msg.username,
                                   Computed[api, resp, msg.username], now,
                                   failAt)
        unchanged == [usd_rate |-> usd_rate, channel_cache |-> channel_cache,
                      notify |-> FALSE]
    IN IF fetched.raised # "none"
       THEN [info |-> fetched.raised, scrape |-> "none",
             reply |-> IF fetched.raised = "ValueError" THEN "error_text"
                       ELSE "try_later",
             steps |-> <<"get_channel_info">>] @@ unchanged
       ELSE IF scraped.raised
       THEN [info |-> "ok", scrape |-> "raised", reply |-> "partial",
             steps |-> <<"get_channel_info", "get_post_views">>] @@ unchanged
       ELSE IF scraped.views = << >>
       THEN [info |-> "ok", scrape |-> "empty", reply |-> "partial",
             steps |-> <<"get_channel_info", "get_post_views">>] @@ unchanged
       ELSE [info |-> "ok", scrape |-> "views", reply |-> "result",
             steps |-> <<"get_channel_info", "get_post_views",
                         "calculate_fair_price", "get_usd_rate",
                         "save_channel_cache">>,
             usd_rate |-> rate.usd_rate,
             channel_cache |-> save.channel_cache, notify |-> save.notify]

Analysis_failsWithoutViews(msg, api, resp, outcomes, failAt) ==
    LET fetched == Fetched[api]
        scraped == Scraped[resp]
        rate == get_usd_rate(usd_rate, Day(now), outcomes)
        save == save_channel_cache(channel_cache, msg.username,
                                   Computed[api, resp, msg.username], now,
                                   failAt)
        unchanged == [usd_rate |-> usd_rate, channel_cache |-> channel_cache,
                      notify |-> FALSE]
    IN IF fetched.raised # "none"
       THEN [info |-> fetched.raised, scrape |-> "none",
             reply |-> IF fetched.raised = "ValueError" THEN "error_text"
                       ELSE "try_later",
             steps |-> <<"get_channel_info">>] @@ unchanged
       ELSE IF scraped.raised
       THEN [info |-> "ok", scrape |-> "raised", reply |-> "try_later",
             steps |-> <<"get_channel_info", "get_post_views">>] @@ unchanged
       ELSE IF scraped.views = << >>
       THEN [info |-> "ok", scrape |-> "empty", reply |-> "try_later",
             steps |-> <<"get_channel_info", "get_post_views">>] @@ unchanged
       ELSE [info |-> "ok", scrape |-> "views", reply |-> "result",
             steps |-> <<"get_channel_info", "get_post_views",
                         "calculate_fair_price", "get_usd_rate",
                         "save_channel_cache">>,
             usd_rate |-> rate.usd_rate,
             channel_cache |-> save.channel_cache, notify |-> save.notify]

Analysis(msg, api, resp, outcomes, failAt) ==
    LET fetched == Fetched[api]
        scraped == Scraped[resp]
        rate == get_usd_rate(usd_rate, Day(now), outcomes)
        save == save_channel_cache(channel_cache, msg.username,
                                   Computed[api, resp, msg.username], now,
                                   failAt)
        unchanged == [usd_rate |-> usd_rate, channel_cache |-> channel_cache,
                      notify |-> FALSE]
    IN IF fetched.raised # "none"
       THEN [info |-> fetched.raised, scrape |-> "none",
             reply |-> IF fetched.raised = "ValueError" THEN "error_text"
                       ELSE "try_later",
             steps |-> <<"get_channel_info">>] @@ unchanged
       ELSE IF scraped.raised
       THEN [info |-> "ok", scrape |-> "raised", reply |-> "try_later",
             steps |-> <<"get_channel_info", "get_post_views">>] @@ unchanged
       ELSE IF scraped.views = << >>
       THEN [info |-> "ok", scrape |-> "empty", reply |-> "partial",
             steps |-> <<"get_channel_info", "get_post_views">>] @@ unchanged
       ELSE [info |-> "ok", scrape |-> "views", reply |-> "result",
             steps |-> <<"get_channel_info", "get_post_views",
                         "calculate_fair_price", "get_usd_rate",
                         "save_channel_cache">>,
             usd_rate |-> rate.usd_rate,
             channel_cache |-> save.channel_cache, notify |-> save.notify]

\* The history of one message: info is what get_channel_info raised, status
\* and markers are the status of the preview answer and the number of view
\* markers on the page (0 where there was no answer or none was asked for),
\* scrape is what get_post_views came to.
Handled(u, msg, granted, resp, r) ==
    LET asked == r.scrape # "none" /\ resp.answered
    IN an_last' = [kind |-> msg.kind, user |-> u, granted |-> granted,
                   info |-> r.info,
                   status |-> IF asked THEN resp.status ELSE 0,
                   markers |-> IF asked THEN Len(resp.views_raw) ELSE 0,
                   scrape |-> r.scrape, reply |-> r.reply, steps |-> r.steps]

Quiet(reply, steps) ==
    [info |-> "none", scrape |-> "none", reply |-> reply, steps |-> steps]

\* Line 538: the handler goes on to the fetches when check_daily_limit
\* returned True, and replies with the limit message and returns otherwise.
Proceeds_whateverTheGate(gate) == TRUE

Proceeds(gate) == gate.granted

AnalyzeChannel(u, msg, api, resp, outcomes, failAt, notifyOk) ==
    /\ CASE msg.kind = "gift" ->
              \E gift \in {redeem_gift_code(gift_codes, subscriptions, msg.code,
                                            u, now, "none")} :
                 /\ gift_codes' = gift.gift_codes
                 /\ subscriptions' = gift.subscriptions
                 /\ Handled(u, msg, FALSE, NoPreview,
                            Quiet(gift.result, <<"redeem_gift_code">>))
                 /\ UNCHANGED <<daily_checks, usd_rate, channel_cache,
                                notifications>>
         [] msg.kind = "other" ->
              /\ Handled(u, msg, FALSE, NoPreview, Quiet("none", << >>))
              /\ UNCHANGED <<dbVars, usd_rate, channel_cache, notifications>>
         [] msg.kind = "channel" ->
              \E gate \in {check_daily_limit(subscriptions, daily_checks, u,
                                             now, TRUE)} :
                 /\ daily_checks' = gate.daily_checks
                 /\ UNCHANGED <<subscriptions, gift_codes>>
                 /\ IF ~Proceeds(gate)
                    THEN /\ Handled(u, msg, FALSE, NoPreview,
                                    Quiet("denied", <<"check_daily_limit">>))
                         /\ UNCHANGED <<usd_rate, channel_cache, notifications>>
                    ELSE \E r \in {Analysis(msg, api, resp, outcomes, failAt)} :
                            /\ NotifyAdmin(r, notifyOk).sent
                                  => notifications < MaxNotifications
                            /\ usd_rate' = r.usd_rate
                            /\ channel_cache' = r.channel_cache
                            /\ notifications' =
                                  IF NotifyAdmin(r, notifyOk).sent
                                  THEN notifications + 1
                                  ELSE notifications
                            /\ Handled(u, msg, gate.granted, resp,
                                       [r EXCEPT !.steps =
                                           <<"check_daily_limit">> \o @])
    /\ UNCHANGED <<now, calls, last, concVars, saved, save_last, rate_last,
                   fnVars>>

\* The inputs a call does not come to read are held at one value each.
Reads(u, msg) ==
    /\ msg.kind = "channel"
    /\ Proceeds(check_daily_limit(subscriptions, daily_checks, u, now, TRUE))

NextAnalyze ==
    \E u \in Users, msg \in Messages :
    \E api \in IF Reads(u, msg) THEN ApiAnswers ELSE {NoApi} :
    \E resp \in IF Reads(u, msg) /\ Fetched[api].raised = "none"
                THEN PreviewAnswers ELSE {NoPreview} :
    \E outcomes \in IF Scraped[resp].views # << >> THEN RateAnswers
                    ELSE {NoRate},
       failAt \in IF Scraped[resp].views # << >> THEN SaveFailures
                  ELSE {"none"},
       notifyOk \in IF Scraped[resp].views # << >> THEN BOOLEAN ELSE {TRUE} :
       AnalyzeChannel(u, msg, api, resp, outcomes, failAt, notifyOk)

SpecAnalyze == Init /\ [][NextAnalyze]_vars

----------------------------------------------------------------------------
(* The functions of the analysis, each called once on an input drawn from  *)
(* a bounded set.                                                          *)

Pending(name) == fn.name = name /\ ~fn.done
Returned(name) == fn.name = name /\ fn.done
Return(out) == fn' = [fn EXCEPT !.done = TRUE, !.out = out]

ExtractUsername ==
    /\ Pending("extract_username")
    /\ Return(extract_username(Shaped(fn.shape, fn.x)))
    /\ UNCHANGED <<now, dbVars, calls, last, concVars, cacheVars, rateVars, anVars>>

InitExtract ==
    /\ InitProcess
    /\ \E shape \in Shapes, x \in TextsUpTo(MaxHandleLen) :
          fn = [name |-> "extract_username", done |-> FALSE, shape |-> shape,
                x |-> x, out |-> NoHandle]

NextExtract == ExtractUsername

SpecExtract == InitExtract /\ [][NextExtract]_vars

DetectNiche ==
    /\ Pending("detect_niche")
    /\ Return(detect_niche(fn.description, fn.title, fn.username))
    /\ UNCHANGED <<now, dbVars, calls, last, concVars, cacheVars, rateVars, anVars>>

InitNiche ==
    /\ InitProcess
    /\ \E d \in NicheWords, t \in NicheWords, u \in NicheUsernames :
          fn = [name |-> "detect_niche", done |-> FALSE, description |-> d,
                title |-> t, username |-> u, out |-> "none"]

NextNiche == DetectNiche

SpecNiche == InitNiche /\ [][NextNiche]_vars

GetPostViews ==
    /\ Pending("get_post_views")
    /\ Return(get_post_views(fn.resp))
    /\ UNCHANGED <<now, dbVars, calls, last, concVars, cacheVars, rateVars, anVars>>

InitScrape ==
    /\ InitProcess
    /\ \E resp \in Responses :
          fn = [name |-> "get_post_views", done |-> FALSE, resp |-> resp,
                out |-> Raised]

NextScrape == GetPostViews

SpecScrape == InitScrape /\ [][NextScrape]_vars

CalculateFairPrice ==
    /\ Pending("calculate_fair_price")
    /\ Return(calculate_fair_price(fn.avg_views, fn.niche))
    /\ UNCHANGED <<now, dbVars, calls, last, concVars, cacheVars, rateVars, anVars>>

\* The average of up to MaxPosts whole view counts, under a niche of the
\* table or one the table does not list.
InitPrice ==
    /\ InitProcess
    /\ \E counts \in SeqsUpTo(ViewCounts, MaxPosts) \ {<< >>},
          niche \in DOMAIN CPM_BY_NICHE \cup {"unlisted"} :
          fn = [name |-> "calculate_fair_price", done |-> FALSE,
                counts |-> counts,
                avg_views |-> Average([i \in 1..Len(counts) |-> Whole(counts[i])]),
                niche |-> niche, out |-> [fair_price |-> 0, cpm |-> 0]]

NextPrice == CalculateFairPrice

SpecPrice == InitPrice /\ [][NextPrice]_vars

GetErStatus ==
    /\ Pending("get_er_status")
    /\ Return(get_er_status(fn.er))
    /\ UNCHANGED <<now, dbVars, calls, last, concVars, cacheVars, rateVars, anVars>>

\* Rates in quarters of a percent, from below 0 to MaxEr.
InitEr ==
    /\ InitProcess
    /\ \E n \in -4..(4 * MaxEr) :
          fn = [name |-> "get_er_status", done |-> FALSE, er |-> Rat(n, 4),
                out |-> "none"]

NextEr == GetErStatus

SpecEr == InitEr /\ [][NextEr]_vars

\* Lines 575-584 of analyze_channel on the datetimes of one page.
ComputePostsPerDay ==
    /\ Pending("posts_per_day")
    /\ Return(PostsPerDay(fn.dates))
    /\ UNCHANGED <<now, dbVars, calls, last, concVars, cacheVars, rateVars, anVars>>

\* Datetimes at the start of a day, within it, and a day and more later;
\* one attribute that fromisoformat cannot read.
PostTimes == {0, 1, TicksPerDay, TicksPerDay + 1}
PostDates == {GoodDate(t) : t \in PostTimes} \cup {BadDate}

InitFreq ==
    /\ InitProcess
    /\ \E dates \in SeqsUpTo(PostDates, MaxPosts) :
          fn = [name |-> "posts_per_day", done |-> FALSE, dates |-> dates,
                out |-> Whole(0)]

NextFreq == ComputePostsPerDay

SpecFreq == InitFreq /\ [][NextFreq]_vars

----------------------------------------------------------------------------
(* Claims about the entitlement gate, checked under Spec *)

\* The step just taken is a call of op (last flips its seq bit on every call).
JustCalled(op) == last'.seq # last.seq /\ last'.op = op

\* C1: for a user with no active subscription, in a series of
\* check_daily_limit calls within one calendar day, exactly the first
\* FREE_CHECKS_PER_DAY calls are granted and every later call is denied.
C1_FirstCallsGranted ==
    \A u \in Users :
        calls[u].free =>
            \A i \in 1..Len(calls[u].seq) :
                calls[u].seq[i] <=> (i <= FREE_CHECKS_PER_DAY)

\* A user without subscription has made more calls in one day than the
\* ceiling allows, the last of them denied.
C1_Witness ==
    \E u \in Users :
        /\ calls[u].free
        /\ Len(calls[u].seq) > FREE_CHECKS_PER_DAY + 1
        /\ last.op = "check_daily_limit" /\ last.user = u
        /\ last.result = "denied"

----------------------------------------------------------------------------
(* Claims about gift codes, checked under SpecGift *)

Unused(c) == c \in DOMAIN gift_codes /\ ~gift_codes[c].used

\* C4: the first redemption of an existing unused code by user u succeeds,
\* marks the code used with used_by = u and sets u's expiry to the redemption
\* time plus the code's days; every later redemption of the code fails with
\* the already-used outcome.  (Of the calls that return; C6 is about the
\* calls that raise.)
C4_RedeemOnce ==
    [][JustCalled("redeem_gift_code") /\ last'.result # "raised"
          => LET c == last'.arg
                 u == last'.user
             IN /\ Unused(c) =>
                     /\ last'.result = "ok"
                     /\ gift_codes'[c].used /\ gift_codes'[c].used_by = u
                     /\ u \in DOMAIN subscriptions'
                     /\ subscriptions'[u] = now + gift_codes[c].days * TicksPerDay
                /\ (c \in DOMAIN gift_codes /\ gift_codes[c].used) =>
                     last'.result = "used"]_vars

\* A second redemption of a code has just failed as already used, the code
\* still carrying its first redeemer.
C4_Witness ==
    /\ last.op = "redeem_gift_code" /\ last.result = "used"
    /\ gift_codes[last.arg].used
    /\ gift_codes[last.arg].used_by \in Users
    /\ gift_codes[last.arg].used_by # last.user

\* C5: redeem_gift_code with an unknown or an already-used code reports
\* failure and leaves every subscriptions row and every gift_codes row
\* unchanged.
C5_FailedRedeemChangesNothing ==
    [][JustCalled("redeem_gift_code") /\ ~Unused(last'.arg)
          => /\ last'.result \in
                   {IF last'.arg \in DOMAIN gift_codes THEN "used" ELSE "not_found",
                    "raised"}
             /\ subscriptions' = subscriptions
             /\ gift_codes' = gift_codes]_vars

\* Both failures have happened: an unknown code was refused while another
\* code of the table was already used.
C5_Witness ==
    /\ last.op = "redeem_gift_code" /\ last.result = "not_found"
    /\ \E c \in DOMAIN gift_codes : gift_codes[c].used

\* C6: whenever a redeem_gift_code call ends, normally or through a store
\* failure at any of its steps, the code is marked used if and only if the
\* redeeming user's subscription was granted from it.
C6_RedeemAtomic ==
    [][JustCalled("redeem_gift_code")
          => LET c == last'.arg
                 u == last'.user
             IN IF Unused(c) /\ gift_codes'[c].used
                THEN /\ u \in DOMAIN subscriptions'
                     /\ subscriptions'[u] = now + gift_codes[c].days * TicksPerDay
                ELSE subscriptions' = subscriptions]_vars

----------------------------------------------------------------------------
(* Claims about concurrent callers, checked under SpecConc *)

\* C2: under any interleaving of concurrent check_daily_limit calls by the
\* same user on the same calendar day, at most FREE_CHECKS_PER_DAY calls are
\* granted on the free-tier path and the stored count for that (user, day)
\* never exceeds FREE_CHECKS_PER_DAY.
C2_CeilingUnderConcurrency ==
    /\ \A k \in DOMAIN freeGrants : freeGrants[k] <= FREE_CHECKS_PER_DAY
    /\ \A k \in DOMAIN daily_checks : daily_checks[k] <= FREE_CHECKS_PER_DAY

\* C3: for any gift code and any interleaving of concurrent redeem_gift_code
\* calls on it, at most one call reports success and at most one subscription
\* grant results from the code.
C3_RedeemedAtMostOnce ==
    \A c \in Codes : redeemed[c].successes <= 1 /\ redeemed[c].grants <= 1

----------------------------------------------------------------------------
(* Claims about the channel cache, checked under SpecCache *)

MilestoneReached ==
    /\ CountChannels(channel_cache') > CountChannels(channel_cache)
    /\ CountChannels(channel_cache') \in CACHE_NOTIFY_MILESTONES

\* C8: the milestone notification is sent only by a save that raises the
\* number of cached handles to a milestone value; a save that overwrites an
\* existing handle while the total stays at the milestone sends none.
C8_NotifyOnlyOnReaching ==
    [][notifications' # notifications => MilestoneReached]_vars

RowsOf(cache, h) == {r \in cache : r.username = h}

\* The rows without updated_at, the column every save refreshes.
Columns(cache) ==
    {[username |-> r.username, snapshot |-> SnapshotOf(r)] : r \in cache}

\* C9: after any sequence of save_channel_cache calls, channel_cache holds
\* exactly one row per distinct handle saved, carrying the values of the most
\* recent save that reached the store; saving the same snapshot a second time
\* leaves the same rows (in every column but the refreshed updated_at).
C9_UpsertOneRowLatestValues ==
    /\ {r.username : r \in channel_cache} = {1} \cup DOMAIN saved
    /\ \A h \in DOMAIN saved :
          RowsOf(channel_cache, h) = {Row(h, saved[h].snapshot, saved[h].at)}
    /\ \A h \in SaveHandles, snap \in Snapshots :
          LET once == save_channel_cache(channel_cache, h, snap, now, "none").channel_cache
              twice == save_channel_cache(once, h, snap, now + 1, "none").channel_cache
          IN /\ Cardinality(twice) = Cardinality(once)
             /\ Columns(twice) = Columns(once)

\* A handle the store already held has been overwritten and new handles have
\* been inserted beside it.
C9_Witness ==
    /\ 1 \in DOMAIN saved
    /\ \E r \in channel_cache : r.username = 1 /\ SnapshotOf(r) # OldSnapshot
    /\ Cardinality(DOMAIN saved) > NewHandles
    /\ save_last.committed /\ save_last.username = 1

----------------------------------------------------------------------------
(* Claims about the exchange rate cache, checked under SpecRate *)

RateCallFailedEverywhere ==
    /\ rate_last'.seq # rate_last.seq
    /\ rate_last'.stale /\ rate_last'.all_failed

\* C10 as stated: when the cache stamp is not today's date and every rate
\* source fails, get_usd_rate returns the previously cached rate, whatever
\* the last successful refresh stored.
C10_ReturnsCachedRate ==
    [][RateCallFailedEverywhere => rate_last'.returned = usd_rate.rate]_vars

\* C10 amended: when the cache stamp is not today's date and every rate
\* source fails, get_usd_rate returns the fixed fallback 90, which is the
\* initial default and not the rate a successful refresh stored, and leaves the
\* cached rate and stamp as they were; the call returns, it does not raise.
C10_ReturnsFallback ==
    [][RateCallFailedEverywhere
          => rate_last'.returned = FallbackRate /\ usd_rate' = usd_rate]_vars

\* With a rate other than 90 cached on an earlier day, a call has found
\* every source failing and has returned 90.
C10_Witness ==
    /\ rate_last.stale /\ rate_last.all_failed
    /\ rate_last.contacted = NumSources
    /\ rate_last.returned = FallbackRate
    /\ usd_rate.rate # FallbackRate
    /\ usd_rate.date # NoDate

\* C11: within one calendar day, once a call of get_usd_rate has refreshed
\* the cache, every later call of that day returns the cached rate and
\* contacts no source; a call refreshes only when the stamp is not today's
\* date, and leaves today's stamp, so a day sees at most one refresh.
C11_OneRefreshPerDay ==
    [][rate_last'.seq # rate_last.seq
          => /\ usd_rate.date = Day(now)
                  => /\ rate_last'.contacted = 0
                     /\ rate_last'.returned = usd_rate.rate
                     /\ usd_rate' = usd_rate
             /\ usd_rate' # usd_rate
                  => /\ usd_rate.date # Day(now)
                     /\ usd_rate'.date = Day(now)]_vars

\* After a refresh earlier in the day, a call that would have found a source
\* answering has contacted none and has returned the rate of the refresh.
C11_Witness ==
    /\ ~rate_last.stale /\ ~rate_last.all_failed
    /\ rate_last.contacted = 0
    /\ usd_rate.date = Day(now)
    /\ rate_last.returned = usd_rate.rate
    /\ usd_rate.rate # InitialRate

\* C13: every subscription grant (payment, gift redemption, admin grant)
\* extends the subscription: no step moves a user's stored expires_at to an
\* earlier time than it held before, or removes the row.
C13_ExpiryNeverEarlier ==
    [][\A u \in DOMAIN subscriptions :
          /\ u \in DOMAIN subscriptions'
          /\ subscriptions'[u] >= subscriptions[u]]_vars

----------------------------------------------------------------------------
(* Claims about the functions of the analysis *)

\* A handle: at least 4 characters, each of [A-Za-z0-9_].
ValidHandle(x) == Len(x) >= 4 /\ \A i \in 1..Len(x) : x[i] \in WordChars

\* x up to its first character of stops.
RECURSIVE Cut(_, _)
Cut(x, stops) ==
    IF x = << >> \/ Head(x) \in stops THEN << >>
    ELSE <<Head(x)>> \o Cut(Tail(x), stops)

Matching(text) ==
    {i \in 1..Len(NICHE_KEYWORDS) :
        \E k \in 1..Len(NICHE_KEYWORDS[i].keywords) :
            Contains(text, NICHE_KEYWORDS[i].keywords[k])}

\* C18: detect_niche returns the first category, in the order of the table,
\* of which any keyword is a substring of the lower-cased description, title
\* and username joined by spaces, and 'default' when no keyword occurs: of
\* two categories that match, the earlier wins.
C18_FirstCategoryInTableOrder ==
    Returned("detect_niche") =>
       LET text == lower(fn.description \o <<" ">> \o fn.title \o <<" ">>
                            \o fn.username)
           hits == Matching(text)
       IN IF hits = {} THEN fn.out = "default"
          ELSE \E i \in hits : /\ fn.out = NICHE_KEYWORDS[i].niche
                               /\ \A j \in hits : i <= j

\* A text with keywords of two categories has been given the earlier one.
C18_Witness ==
    /\ Returned("detect_niche")
    /\ Cardinality(Matching(lower(fn.description \o <<" ">> \o fn.title
                                     \o <<" ">> \o fn.username))) >= 2
    /\ fn.out # "default"

\* C14: when the preview answers with a redirect status (301, 302, 303, 307
\* or 308), get_post_views returns two empty sequences and raises nothing;
\* with any other HTTP error status it raises.
C14_RedirectIsEmptyOtherErrorsRaise ==
    Returned("get_post_views") /\ fn.resp.answered
                               /\ fn.resp.status \notin 200..299 =>
       IF fn.resp.status \in {301, 302, 303, 307, 308}
       THEN ~fn.out.raised /\ fn.out.views = << >> /\ fn.out.dates = << >>
       ELSE fn.out.raised

\* A page with view markers answered with status 302 has given two empty
\* sequences.
C14_Witness ==
    /\ Returned("get_post_views")
    /\ fn.resp.answered /\ fn.resp.status = 302 /\ fn.resp.views_raw # << >>
    /\ ~fn.out.raised /\ fn.out.views = << >> /\ fn.out.dates = << >>

\* cpm / 1000 in lowest terms
PerView(cpm) == Rat(cpm, 1000)

\* C19: calculate_fair_price(avg_views, niche) returns
\* floor(avg_views * cpm / 1000), the greatest whole number not above the
\* product, with the CPM of the niche in the table and the CPM of 'default',
\* 1800, for a niche the table does not list.
C19_FloorOfViewsTimesCpm ==
    Returned("calculate_fair_price") =>
       LET cpm == IF fn.niche \in DOMAIN CPM_BY_NICHE THEN CPM_BY_NICHE[fn.niche]
                  ELSE 1800
           p == fn.out.fair_price
           scale == PerView(cpm).den * fn.avg_views.den
           product == PerView(cpm).num * fn.avg_views.num
       IN /\ fn.out.cpm = cpm
          /\ p * scale <= product
          /\ product < (p + 1) * scale

\* Views 1200, 900 and 3000000 have averaged to 1000700 and have been priced
\* at 1801260 under a niche the table does not list.
C19_Witness ==
    /\ Returned("calculate_fair_price")
    /\ fn.counts = <<1200, 900, 3000000>>
    /\ fn.avg_views = Whole(1000700)
    /\ fn.niche = "unlisted"
    /\ fn.out = [fair_price |-> 1801260, cpm |-> 1800]

\* C20: get_er_status gives exactly one of four labels by descending
\* inclusive thresholds: the top label from 20 up, the second from 10 up to
\* but not 20, the third from 5 up to but not 10, the low label below 5.
C20_InclusiveThresholds ==
    Returned("get_er_status") =>
       LET n == fn.er.num
           d == fn.er.den
       IN /\ fn.out \in {"excellent", "good", "average", "low"}
          /\ fn.out = "excellent" <=> n >= 20 * d
          /\ fn.out = "good" <=> 10 * d <= n /\ n < 20 * d
          /\ fn.out = "average" <=> 5 * d <= n /\ n < 10 * d
          /\ fn.out = "low" <=> n < 5 * d

\* A rate of exactly 10 has been given the second label.
C20_Witness ==
    /\ Returned("get_er_status")
    /\ fn.er = Whole(10)
    /\ fn.out = "good"

----------------------------------------------------------------------------
(* Claims about analyze_channel, checked under SpecAnalyze.  Every step is *)
(* one message handled, and an_last' is its history.                       *)

\* The metadata fetch of the step raised: the chat was not found or is no
\* channel or supergroup (ValueError), or a request got no answer.
FetchFailed(h) == h.info \in {"ValueError", "Exception"}

\* The scrape of the step raised: no answer, or an error status that is not
\* a redirect.
ScrapeFailed(h) == h.scrape = "raised"

\* The scrape of the step returned no view count: a redirect, or a page none
\* of whose view markers is a number.
NoViews(h) == h.scrape = "empty"

\* C12: analyze_channel writes to channel_cache only when the metadata fetch
\* and the preview scrape both completed without error; when either ends in
\* a not-found, unsupported-type or transport error, the reply is a failure
\* message and channel_cache is left as it was.
C12_CacheWrittenOnlyAfterBothFetches ==
    [][/\ channel_cache' # channel_cache
            => /\ an_last'.info = "ok"
               /\ an_last'.scrape \in {"empty", "views"}
       /\ FetchFailed(an_last') \/ ScrapeFailed(an_last')
            => /\ an_last'.reply \in {"error_text", "try_later"}
               /\ channel_cache' = channel_cache]_vars

\* A granted analysis whose scrape met the status 404 has replied with the
\* failure message, and the table holds the one row it held at the start.
C12_Witness ==
    /\ an_last.granted /\ an_last.info = "ok" /\ ScrapeFailed(an_last)
    /\ an_last.status = 404
    /\ an_last.reply = "try_later"
    /\ channel_cache = {Row(1, OldSnapshot, 0)}

\* C15: when the metadata fetch succeeds and the scrape gives no view count
\* (a redirected preview, or no view marker that parses), analyze_channel
\* replies with the partial result, prices nothing, asks for no rate and
\* writes nothing to channel_cache.
C15_PartialResultWithoutViews ==
    [][an_last'.info = "ok" /\ NoViews(an_last')
          => /\ an_last'.reply = "partial"
             /\ an_last'.steps = <<"check_daily_limit", "get_channel_info",
                                   "get_post_views">>
             /\ channel_cache' = channel_cache
             /\ usd_rate' = usd_rate
             /\ notifications' = notifications]_vars

\* A page whose view markers hold no number has been answered with the
\* partial result.
C15_Witness ==
    /\ an_last.info = "ok" /\ NoViews(an_last)
    /\ an_last.status = 200 /\ an_last.markers > 0
    /\ an_last.reply = "partial"

\* C16: every row of channel_cache has a non-negative engagement rate and a
\* non-negative fair price.
C16_RowsNonNegative ==
    \A r \in channel_cache : r.er.num >= 0 /\ r.fair_price >= 0

----------------------------------------------------------------------------
(* Claims about the counter rows, checked under Spec *)

\* The rows of every other user and of every other day are the same before
\* and after the step.
OtherRowsKept(u, d) ==
    \A k \in (DOMAIN daily_checks \cup DOMAIN daily_checks') \ {<<u, d>>} :
        /\ k \in DOMAIN daily_checks /\ k \in DOMAIN daily_checks'
        /\ daily_checks'[k] = daily_checks[k]

----------------------------------------------------------------------------
(* Claims about the order of the calls of analyze_channel, checked under   *)
(* SpecAnalyze                                                             *)

RemoteCalls ==
    {"get_channel_info", "get_post_views", "get_usd_rate", "save_channel_cache"}

\* C22: in analyze_channel no metadata fetch, preview scrape, rate refresh
\* or cache write is made before check_daily_limit has granted the request,
\* and a denied request makes none of them and leaves the rate cache and
\* channel_cache as they were.
C22_GateBeforeRemoteCalls ==
    [][LET h == an_last'
       IN /\ \A i \in 1..Len(h.steps) :
                h.steps[i] \in RemoteCalls
                   => /\ h.granted
                      /\ \E j \in 1..(i - 1) : h.steps[j] = "check_daily_limit"
          /\ h.kind = "channel" /\ ~h.granted
                => /\ h.steps = <<"check_daily_limit">>
                   /\ h.reply = "denied"
                   /\ usd_rate' = usd_rate
                   /\ channel_cache' = channel_cache
                   /\ notifications' = notifications
          /\ usd_rate' # usd_rate \/ channel_cache' # channel_cache
                => h.granted]_vars

\* A request has just been denied, its user's count at the ceiling, after an
\* earlier request was granted and wrote its row to channel_cache.
C22_Witness ==
    /\ an_last.kind = "channel" /\ ~an_last.granted
    /\ an_last.reply = "denied"
    /\ \E u \in Users :
          SelectCount(daily_checks, u, Day(now)) = FREE_CHECKS_PER_DAY
    /\ channel_cache # {Row(1, OldSnapshot, 0)}

\* C27: a free-tier check is consumed when the request is granted and is
\* never given back: the grant of a request of a user without subscription
\* raises the user's count for today by one whatever the analysis then comes
\* to (a failed fetch, a failed scrape, a partial result), and no message
\* handled lowers a count; three failed analyses exhaust the day's quota.
C27_CheckConsumedWhateverTheOutcome ==
    [][LET h == an_last'
           d == Day(now)
       IN /\ \A k \in DOMAIN daily_checks :
                k \in DOMAIN daily_checks' /\ daily_checks'[k] >= daily_checks[k]
          /\ h.kind = "channel" /\ h.granted /\ ~SubscriptionActive(h.user)
                => /\ h.reply \in {"error_text", "try_later", "partial", "result"}
                   /\ SelectCount(daily_checks', h.user, d)
                         = SelectCount(daily_checks, h.user, d) + 1
          /\ h.kind = "channel" /\ ~h.granted
                => SelectCount(daily_checks, h.user, d) >= FREE_CHECKS_PER_DAY]_vars

\* A user has just been denied with the count at the ceiling, and no
\* analysis has written a row: every one of the three granted requests
\* failed or was answered in part.
C27_Witness ==
    /\ an_last.kind = "channel" /\ ~an_last.granted
    /\ an_last.reply = "denied"
    /\ SelectCount(daily_checks, an_last.user, Day(now)) = FREE_CHECKS_PER_DAY
    /\ channel_cache = {Row(1, OldSnapshot, 0)}

----------------------------------------------------------------------------
(* Claims about the posting frequency, checked under SpecFreq *)

Reverse(s) == [i \in 1..Len(s) |-> s[Len(s) + 1 - i]]

\* C23: for every list of at least two datetimes, the posts-per-day value
\* computed from the list equals the value computed from its reversal.
C23_SameValueForReversedList ==
    Returned("posts_per_day") /\ Len(fn.dates) >= 2
        => fn.out = PostsPerDay(Reverse(fn.dates))

----------------------------------------------------------------------------
(* Claims about the quota from one day to the next, checked under Spec *)

\* The rows of one day.
RowsOfDay(dc, d) == [k \in {j \in DOMAIN dc : j[2] = d} |-> dc[k]]

\* C24: the decision of check_daily_limit is the decision it takes on
\* today's rows alone, the rows of earlier days left out; a user without
\* subscription who was denied on an earlier day is granted on the first
\* FREE_CHECKS_PER_DAY requests of the day and denied on the later ones.
C24_QuotaIsPerCalendarDay ==
    [][JustCalled("check_daily_limit")
          => LET u == last'.user
                 r == check_daily_limit(subscriptions,
                                        RowsOfDay(daily_checks, Day(now)),
                                        u, now, last'.arg = "ok")
                 c == calls'[u]
             IN /\ last'.result = IF r.granted THEN "granted" ELSE "denied"
                /\ c.free /\ c.denied_before
                      => (last'.result = "granted"
                              <=> Len(c.seq) <= FREE_CHECKS_PER_DAY)]_vars

\* A user without subscription, denied on the day before with the count at
\* the ceiling, has been granted three times today and then denied.
C24_Witness ==
    \E u \in Users :
        /\ calls[u].free /\ calls[u].denied_before
        /\ calls[u].day = Day(now) /\ Day(now) > 0
        /\ calls[u].seq = <<TRUE, TRUE, TRUE, FALSE>>
        /\ SelectCount(daily_checks, u, Day(now) - 1) = FREE_CHECKS_PER_DAY
        /\ SelectCount(daily_checks, u, Day(now)) = FREE_CHECKS_PER_DAY

----------------------------------------------------------------------------
(* Claims about the admin entry points, checked under SpecAdmin *)

AdminEntryPoints == {"grant_command", "giftcode_command", "button_callback"}

\* C25: a grant, gift-code or admin-button request from a user other than
\* the admin leaves subscriptions and gift_codes unchanged; only a request
\* of the admin changes either table through these entry points.
C25_OnlyAdminGrantsAndCreates ==
    [][/\ last'.seq # last.seq /\ last'.op \in AdminEntryPoints
            /\ last'.user # ADMIN_ID
            => subscriptions' = subscriptions /\ gift_codes' = gift_codes
       /\ subscriptions' # subscriptions \/ gift_codes' # gift_codes
            => last'.op \in AdminEntryPoints /\ last'.user = ADMIN_ID]_vars

\* The ordinary user's /grant on their own id has just been ignored: they
\* hold no subscription, while the admin has made a gift code.
C25_Witness ==
    /\ last.op = "grant_command" /\ last.user # ADMIN_ID
    /\ last.arg = "user" /\ last.result = "ignored"
    /\ last.user \notin DOMAIN subscriptions
    /\ gift_codes # << >>

----------------------------------------------------------------------------
(* Claims about a failed milestone notification, checked under SpecCache *)

\* C26: when the milestone notification of a save_channel_cache call fails,
\* the call still returns normally, no notification is counted, and the row
\* it upserted is in channel_cache with the values of the call.
C26_FailedNotificationKeepsRow ==
    [][save_last'.seq # save_last.seq /\ save_last'.notify_failed
          => LET h == save_last'.username
             IN /\ ~save_last'.raised
                /\ save_last'.committed
                /\ RowsOf(channel_cache', h) = {Row(h, saved'[h].snapshot, now)}
                /\ notifications' = notifications]_vars

\* A save has just raised the number of handles to a milestone, its
\* notification failed, and the new handle is in the table.
C26_Witness ==
    /\ save_last.notify_failed /\ ~save_last.raised
    /\ CountChannels(channel_cache) \in CACHE_NOTIFY_MILESTONES
    /\ save_last.username # 1
    /\ RowsOf(channel_cache, save_last.username) # {}
    /\ notifications = 0

=============================================================================
